---------------------------- MODULE Spec2Model ----------------------------
(***************************************************************************)
(* Model of the chat-timeline assignment of src/src/components/            *)
(* ChatExample.tsx (generateDates, getSenderForMessage, generateTimestamps *)
(* and the business-hours helpers), of the blackjack gate of               *)
(* src/src/components/BlackjackVerification.tsx and of the Quiz component. *)
(* Each component has its own specification; the variables of the other    *)
(* components keep their initial values in it.                             *)
(*                                                                         *)
(* A calendar date (a JavaScript Date truncated to local midnight) is an   *)
(* integer day number; day d falls on weekday d % 7 with 0 = Sunday, as    *)
(* Date.getDay() numbers them.  A time string such as '4:07 PM' is the     *)
(* record of the three groups the code's regular expression captures.     *)
(* Indices are kept 0-based as in the code; At(s, i) reads s[i].           *)
(***************************************************************************)
EXTENDS Integers, Sequences, FiniteSets

VARIABLES
    today,                \* generateDates: today (midnight)
    convType,             \* ChatExample prop `type`
    rawCount,             \* rawMessages.length
    pc,                   \* position in the pipeline
    daysBack,             \* generateDates: daysBack
    weekdayCount,         \* generateDates: weekdayCount
    walked,               \* history: the checkDate values the while loop examined
    availableDates,       \* generateDates result / generateTimestamps argument
    messages,             \* assignedMessages
    dateBreaks,           \* generateTimestamps: dateBreaks
    lastTimeIndexByDate,  \* generateTimestamps: Map dateKey -> last time index
    index,                \* forEach index of generateTimestamps
    trace,                \* history: per message, the intermediate values of its iteration
    hoursInput,           \* argument of isWithinBusinessHours
    hoursResult,          \* its result
    playerHand,           \* BlackjackVerification: gameState.playerHand
    dealerHand,           \* gameState.dealerHand
    gameStatus,           \* gameState.gameStatus
    isDealerRevealed,     \* gameState.isDealerRevealed
    resultTimer,          \* the pending setTimeout of the game-result effect
    passedCalls,          \* number of calls of the onVerificationPassed prop
    bjEvent,              \* history: the handler, effect or timer that ran last
    correctAnswers,       \* Quiz: questions[i].correctAnswer, by question id
    currentQuestionIndex, \* Quiz state
    selectedAnswers,      \* Map question id -> answer index
    answeredQuestions,    \* Set of question ids
    quizState,
    verificationState,
    pendingQuestionIndex,
    quizEvent,            \* history: the handler that ran last
    correctLog,           \* history: the indices whose correct answer was submitted
    handCards,            \* argument of calculateHandTotal
    handResult,           \* its result
    open,                 \* LanguageSelect: popover open
    filteredCount,        \* filteredLanguages.length
    highlightedIndex,
    rafQueue,             \* pending requestAnimationFrame callbacks that set the highlight
    lsEvent,              \* history: the handler or callback that ran last
    locales,              \* RotatingText: rotatingMessages of every language
    currentLanguage,
    currentIndexRef,
    currentGraphemesRef,
    textContent,          \* text of the span
    timeoutRef,           \* the pending timer: function, argument, delay
    isInitialMount,
    rtMounted,
    rtEvent,              \* history: what the last step of RotatingText did
    fnLanguage,           \* edge function: params.language
    fnEnv,                \* context.env
    fnPc,                 \* received, fetching, responded
    b2Requests,           \* URLs fetched from B2
    b2Answer,             \* what fetch and response.json() did
    fnStatus              \* status of the Response returned

chatVars == <<today, convType, rawCount, pc, daysBack, weekdayCount, walked,
              availableDates, messages, dateBreaks, lastTimeIndexByDate, index, trace>>
hoursVars == <<hoursInput, hoursResult>>
bjVars == <<playerHand, dealerHand, gameStatus, isDealerRevealed, resultTimer, passedCalls,
            bjEvent>>
quizVars == <<correctAnswers, currentQuestionIndex, selectedAnswers, answeredQuestions,
              quizState, verificationState, pendingQuestionIndex, quizEvent, correctLog>>
handVars == <<handCards, handResult>>
lsVars == <<open, filteredCount, highlightedIndex, rafQueue, lsEvent>>
rtVars == <<locales, currentLanguage, currentIndexRef, currentGraphemesRef,
           textContent, timeoutRef, isInitialMount, rtMounted, rtEvent>>
fnVars == <<fnLanguage, fnEnv, fnPc, b2Requests, b2Answer, fnStatus>>
vars == <<chatVars, hoursVars, bjVars, quizVars, handVars, lsVars, rtVars, fnVars>>

\* What the steps of one component leave alone.
notChat == <<hoursVars, bjVars, quizVars, handVars, lsVars, rtVars, fnVars>>
notHours == <<chatVars, bjVars, quizVars, handVars, lsVars, rtVars, fnVars>>
notBlackjack == <<chatVars, hoursVars, quizVars, handVars, lsVars, rtVars, fnVars>>
notQuiz == <<chatVars, hoursVars, bjVars, handVars, lsVars, rtVars, fnVars>>
notHand == <<chatVars, hoursVars, bjVars, quizVars, lsVars, rtVars, fnVars>>
notLanguageSelect == <<chatVars, hoursVars, bjVars, quizVars, handVars, rtVars, fnVars>>
notRotatingText == <<chatVars, hoursVars, bjVars, quizVars, handVars, lsVars, fnVars>>
notTranslations == <<chatVars, hoursVars, bjVars, quizVars, handVars, lsVars, rtVars>>

(***************************************************************************)
(* Bounds of the model                                                     *)
(***************************************************************************)
MaxMsgs == 22        \* rawMessages.length ranges over 0..MaxMsgs
TodaySpan == 7       \* 'today' ranges over this many consecutive days
DeckSize == 3        \* getRandomCard draws from the first DeckSize cards of CardOrder
MaxHits == 1         \* accepted Hit clicks per round
NumQuestions == 3    \* questions.length
NumOptions == 3      \* options per question
MaxHandLen == 4      \* calculateHandTotal is applied to hands of 0..MaxHandLen cards
NumLanguages == 3    \* languages.length
MaxRaf == 2          \* pending animation-frame callbacks
MaxMessages == 2     \* rotating messages of one language
MaxCodeLen == 5      \* characters of a language code

Todays == 21..(21 + TodaySpan - 1)

At(s, i) == s[i + 1]
Min(a, b) == IF a < b THEN a ELSE b
Max(a, b) == IF a > b THEN a ELSE b

(***************************************************************************)
(* Dates                                                                   *)
(***************************************************************************)
getDay(d) == d % 7

isWeekend(date) == getDay(date) = 0 \/ getDay(date) = 6

\* Mutant: Friday is not counted as a weekday.
isWeekdayMonToThu(dayOfWeek) == dayOfWeek >= 1 /\ dayOfWeek <= 4

isWeekdayNumber(dayOfWeek) == dayOfWeek >= 1 /\ dayOfWeek <= 5

minDays == 3
SafetyLimit == 14

\* Mutant: the loop stops as soon as either count is reached.
walkStopsEarly(wc, db) == wc < minDays /\ db < minDays

walkContinues(wc, db) == wc < minDays \/ db < minDays

\* Mutant: the window starts at the earliest walked day.
buildDatesFromWalk(t, db) == [k \in 1..db |-> t - (db - k)]

buildDates(t, db) == [k \in 1..(db + 1) |-> t - (db - (k - 1))]

(***************************************************************************)
(* Time strings and business hours                                         *)
(***************************************************************************)
BUSINESS_HOUR_START == 9
BUSINESS_HOUR_END == 17

Time(h, m, p) == [hour |-> h, minute |-> m, period |-> p]
NoMatch == Time(0, 0, "")        \* a string the regular expression does not match
EmptyTimestamp == NoMatch        \* timestamp: ''

parseTimeToHour(timeString) ==
    IF timeString.period \notin {"AM", "PM"} THEN BUSINESS_HOUR_START
    ELSE IF timeString.period = "PM" /\ timeString.hour # 12 THEN timeString.hour + 12
    ELSE IF timeString.period = "AM" /\ timeString.hour = 12 THEN 0
    ELSE timeString.hour

isWithinBusinessHours(timeString) ==
    LET hour == parseTimeToHour(timeString)
    IN  hour >= BUSINESS_HOUR_START /\ hour <= BUSINESS_HOUR_END

RECURSIVE skipWeekend(_)
skipWeekend(nextDate) == IF isWeekend(nextDate) THEN skipWeekend(nextDate + 1) ELSE nextDate

getNextBusinessDay(date) == skipWeekend(date + 1)

NineAM == Time(9, 0, "AM")

adjustToBusinessHours(date, timeString) ==
    IF isWeekend(date) THEN [date |-> getNextBusinessDay(date), time |-> NineAM]
    ELSE IF ~isWithinBusinessHours(timeString)
         THEN [date |-> getNextBusinessDay(date), time |-> NineAM]
         ELSE [date |-> date, time |-> timeString]

(***************************************************************************)
(* Senders                                                                 *)
(***************************************************************************)
conversationScript(type) ==
    IF type = "bad"
    THEN <<"you", "support", "you", "support", "you", "support", "you", "support">>
    ELSE <<"you", "support">>

\* Mutant: beyond the script the alternation starts with 'support'.
getSenderSupportFirst(type, i) ==
    LET script == conversationScript(type)
    IN  IF i < Len(script) THEN At(script, i)
        ELSE IF i % 2 = 0 THEN "support" ELSE "you"

getSenderForMessage(type, i) ==
    LET script == conversationScript(type)
    IN  IF i < Len(script) THEN At(script, i)
        ELSE IF i % 2 = 0 THEN "you" ELSE "support"

(***************************************************************************)
(* generateTimestamps                                                      *)
(***************************************************************************)
\* Mutant: the every-two-messages break is taken at odd indices.
isDateBreakAtOdd(msgs, i) ==
    i % 2 = 1 \/ (At(msgs, i - 1).sender = "support" /\ At(msgs, i).sender = "you")

isDateBreak(msgs, i) ==
    i % 2 = 0 \/ (At(msgs, i - 1).sender = "support" /\ At(msgs, i).sender = "you")

RECURSIVE collectDateBreaks(_, _, _)
collectDateBreaks(msgs, i, acc) ==
    IF i >= Len(msgs) THEN acc
    ELSE collectDateBreaks(msgs, i + 1, IF isDateBreak(msgs, i) THEN Append(acc, i) ELSE acc)

computeDateBreaks(msgs) == collectDateBreaks(msgs, 1, <<0>>)

RECURSIVE findDateBreak(_, _, _)
findDateBreak(breaks, idx, i) ==
    IF i < 0 THEN 0
    ELSE IF idx >= At(breaks, i) THEN i
    ELSE findDateBreak(breaks, idx, i - 1)

\* Mutant: breaks are mapped forward from the first window date.
mapDateIndexForward(totalDateBreaks, dateBreakIndex, len) == Min(dateBreakIndex, len - 1)

mapDateIndex(totalDateBreaks, dateBreakIndex, len) ==
    IF totalDateBreaks > 0
    THEN Max(0, Min(len - 1 - (totalDateBreaks - 1 - dateBreakIndex), len - 1))
    ELSE len - 1

\* Mutant: the forward search accepts Sunday (dayOfWeek >= 0).
RECURSIVE searchForwardFromSunday(_, _)
searchForwardFromSunday(dates, i) ==
    IF i >= Len(dates) THEN -1
    ELSE IF getDay(At(dates, i)) >= 0 /\ getDay(At(dates, i)) <= 5 THEN i
    ELSE searchForwardFromSunday(dates, i + 1)

RECURSIVE searchForward(_, _)
searchForward(dates, i) ==
    IF i >= Len(dates) THEN -1
    ELSE IF getDay(At(dates, i)) >= 1 /\ getDay(At(dates, i)) <= 5 THEN i
    ELSE searchForward(dates, i + 1)

RECURSIVE searchBackward(_, _)
searchBackward(dates, i) ==
    IF i < 0 THEN -1
    ELSE IF getDay(At(dates, i)) >= 1 /\ getDay(At(dates, i)) <= 5 THEN i
    ELSE searchBackward(dates, i - 1)

\* Lines 305-341: the weekend filter applied to a support message's date index.
avoidWeekend(dates, mappedDateIndex) ==
    LET initialDayOfWeek == getDay(At(dates, mappedDateIndex))
        fwd == searchForward(dates, mappedDateIndex + 1)
        bwd == searchBackward(dates, mappedDateIndex - 1)
    IN  IF initialDayOfWeek = 0 \/ initialDayOfWeek = 6
        THEN IF fwd >= 0 THEN [mappedDateIndex |-> fwd, searched |-> TRUE, foundWeekday |-> TRUE]
             ELSE IF bwd >= 0
                  THEN [mappedDateIndex |-> bwd, searched |-> TRUE, foundWeekday |-> TRUE]
                  ELSE [mappedDateIndex |-> mappedDateIndex, searched |-> TRUE,
                        foundWeekday |-> FALSE]
        ELSE [mappedDateIndex |-> mappedDateIndex, searched |-> FALSE, foundWeekday |-> FALSE]

\* Mutant: an evening time among the support candidates.
businessHoursTimesWithEvening ==
    <<Time(9, 7, "AM"), Time(11, 19, "AM"), Time(6, 31, "PM"), Time(4, 7, "PM")>>

businessHoursTimes ==
    <<Time(9, 7, "AM"), Time(11, 19, "AM"), Time(2, 0, "PM"), Time(4, 7, "PM")>>

allTimes ==
    <<Time(9, 7, "AM"), Time(11, 19, "AM"), Time(2, 0, "PM"), Time(4, 7, "PM"),
      Time(5, 26, "PM"), Time(6, 31, "PM"), Time(7, 15, "PM")>>

\* Mutant: support messages draw from the full list.
timesForAnySender(sender) == allTimes

timesFor(sender) == IF sender = "support" THEN businessHoursTimes ELSE allTimes

\* Lines 364-383: the time index of a message, from the last index used on its date.
\* last = -1 stands for `undefined` (no message on this date yet).
nextTimeIndex(last, dateBreakIndex, len) ==
    IF last = -1 THEN Min(dateBreakIndex, len - 1)
    ELSE IF last + 1 >= len THEN len - 1 ELSE last + 1

RECURSIVE findExact(_, _, _)
findExact(dates, target, i) ==
    IF i >= Len(dates) THEN -1
    ELSE IF At(dates, i) = target /\ ~isWeekend(At(dates, i)) THEN i
    ELSE findExact(dates, target, i + 1)

RECURSIVE findAtOrAfter(_, _, _)
findAtOrAfter(dates, target, i) ==
    IF i >= Len(dates) THEN -1
    ELSE IF At(dates, i) >= target /\ ~isWeekend(At(dates, i)) THEN i
    ELSE findAtOrAfter(dates, target, i + 1)

\* Lines 398-430: the date of a rolled-over message, looked up in availableDates.
relocate(dates, adjustedDate, current) ==
    LET exact == findExact(dates, adjustedDate, 0)
        later == findAtOrAfter(dates, adjustedDate, 0)
    IN  IF exact >= 0 THEN At(dates, exact)
        ELSE IF later >= 0 THEN At(dates, later)
        ELSE current

\* Lines 285-438: one iteration of messages.forEach.
processMessage(msgs, dates, breaks, lastMap, idx) ==
    LET msg == At(msgs, idx)
        dateBreakIndex == findDateBreak(breaks, idx, Len(breaks) - 1)
        totalDateBreaks == Len(breaks)
        initialIndex == mapDateIndex(totalDateBreaks, dateBreakIndex, Len(dates))
        filtered == IF msg.sender = "support" THEN avoidWeekend(dates, initialIndex)
                    ELSE [mappedDateIndex |-> initialIndex, searched |-> FALSE,
                          foundWeekday |-> FALSE]
        date == At(dates, filtered.mappedDateIndex)
        times == timesFor(msg.sender)
        lastTimeIndex == IF date \in DOMAIN lastMap THEN lastMap[date] ELSE -1
        timeIndex == nextTimeIndex(lastTimeIndex, dateBreakIndex, Len(times))
        assignedTime == At(times, timeIndex)
        rollover == msg.sender = "support" /\ ~isWithinBusinessHours(assignedTime)
        adjusted == adjustToBusinessHours(date, assignedTime)
    IN  [msg |-> [sender |-> msg.sender,
                  date |-> IF rollover THEN relocate(dates, adjusted.date, date) ELSE date,
                  timestamp |-> IF rollover THEN adjusted.time ELSE assignedTime,
                  dateBreakIndex |-> dateBreakIndex],
         lastMap |-> [d \in DOMAIN lastMap \cup {date} |->
                         IF d = date THEN timeIndex ELSE lastMap[d]],
         trace |-> [initialIndex |-> initialIndex,
                    mappedDateIndex |-> filtered.mappedDateIndex,
                    searched |-> filtered.searched,
                    foundWeekday |-> filtered.foundWeekday,
                    lastTimeIndex |-> lastTimeIndex,
                    timeIndex |-> timeIndex,
                    rollover |-> rollover]]

(***************************************************************************)
(* BlackjackVerification: hands                                            *)
(***************************************************************************)
\* getRandomCard returns 1..13; the model draws from a prefix of this order.
CardOrder == <<1, 13, 6, 9, 10, 4, 2, 7, 11, 5, 3, 8, 12>>

Cards == {CardOrder[i] : i \in 1..DeckSize}

\* Lines 21-31: what one card adds to the total (an ace counts 11 at first).
cardValue(card) ==
    IF card = 1 THEN 11
    ELSE IF card >= 11 THEN 10
    ELSE card

RECURSIVE sumCards(_, _)
\* Lines 20-32: the total the loop over the cards accumulates.
sumCards(cards, i) ==
    IF i > Len(cards) THEN 0 ELSE cardValue(cards[i]) + sumCards(cards, i + 1)

RECURSIVE countAces(_, _)
\* Lines 20-24: the aces the loop counts.
countAces(cards, i) ==
    IF i > Len(cards) THEN 0
    ELSE (IF cards[i] = 1 THEN 1 ELSE 0) + countAces(cards, i + 1)

\* Variant: at most one ace is counted as 1.
adjustAcesOnce(total, aces) ==
    IF total > 21 /\ aces > 0 THEN total - 10 ELSE total

RECURSIVE adjustAces(_, _)
\* Lines 35-38: while (total > 21 && aces > 0)
adjustAces(total, aces) ==
    IF total > 21 /\ aces > 0 THEN adjustAces(total - 10, aces - 1) ELSE total

\* Lines 16-44.
calculateHandTotal(cards) ==
    LET total == adjustAces(sumCards(cards, 1), countAces(cards, 1))
    IN  [total |-> total, isBusted |-> total > 21, isBlackjack |-> Len(cards) = 2 /\ total = 21]

\* Lines 47-51 and 111-117, 167-172: a hand record for given cards.
makeHand(cards) ==
    LET r == calculateHandTotal(cards)
    IN  [cards |-> cards, total |-> r.total, isBusted |-> r.isBusted,
         isBlackjack |-> r.isBlackjack]

\* createHand: the hands two draws can give.
NewHands == {makeHand(<<a, b>>) : a \in Cards, b \in Cards}

NoHand == [cards |-> <<>>, total |-> 0, isBusted |-> FALSE, isBlackjack |-> FALSE]

RECURSIVE dealerDrawsBelow16(_)
\* Variant: a dealer that stops drawing at 16.
dealerDrawsBelow16(dealerCards) ==
    IF calculateHandTotal(dealerCards).total < 16
    THEN UNION {dealerDrawsBelow16(Append(dealerCards, newCard)) : newCard \in Cards}
    ELSE {dealerCards}

RECURSIVE dealerDraws(_)
\* Lines 101-109: every card sequence the dealer's draw loop can end with.
dealerDraws(dealerCards) ==
    IF calculateHandTotal(dealerCards).total < 17
    THEN UNION {dealerDraws(Append(dealerCards, newCard)) : newCard \in Cards}
    ELSE {dealerCards}

\* Variant: the winner by totals alone, without the two-card-21 cases.
determineWinnerNoBlackjackRule(currentPlayerHand, dealer) ==
    IF dealer.isBusted \/ currentPlayerHand.total > dealer.total THEN "player-won"
    ELSE IF dealer.total > currentPlayerHand.total THEN "dealer-won"
    ELSE "tie"

\* Lines 119-132: the winner.
determineWinner(currentPlayerHand, dealer) ==
    IF currentPlayerHand.isBlackjack /\ dealer.isBlackjack THEN "tie"
    ELSE IF currentPlayerHand.isBlackjack THEN "player-won"
    ELSE IF dealer.isBusted \/ currentPlayerHand.total > dealer.total THEN "player-won"
    ELSE IF dealer.total > currentPlayerHand.total THEN "dealer-won"
    ELSE "tie"

\* Variant: every finished round arms the verification timer.
timerVerifyAlways(status) ==
    IF status = "player-won" \/ status = "dealer-won" \/ status = "tie" THEN "verify"
    ELSE "none"

\* Variant: a lost or tied round arms no timer.
timerNoReset(status) ==
    IF status = "player-won" THEN "verify" ELSE "none"

\* Lines 197-218: the timer the game-result effect leaves pending for a status.
timerFor(status) ==
    IF status = "player-won" THEN "verify"
    ELSE IF status = "dealer-won" \/ status = "tie" THEN "reset"
    ELSE "none"

\* Line 313: the condition under which the Hit and Stand buttons are rendered.
controlsOffered ==
    gameStatus = "playing" /\ ~playerHand.isBusted /\ playerHand.total # 21

\* Line 161: handleHit does not return early.
hitAccepted ==
    ~(gameStatus # "playing" \/ playerHand.isBusted \/ playerHand.total = 21)

\* Line 191: handleStand does not return early.
standAccepted ==
    ~(gameStatus # "playing" \/ isDealerRevealed \/ playerHand.total = 21)

NoResult == [total |-> -1, isBusted |-> FALSE, isBlackjack |-> FALSE]

HandUnused == handCards = <<>> /\ handResult = NoResult

BlackjackUnmounted ==
    /\ playerHand = NoHand /\ dealerHand = NoHand
    /\ gameStatus = "unmounted" /\ isDealerRevealed = FALSE
    /\ resultTimer = "none" /\ passedCalls = 0 /\ bjEvent = "none"

(***************************************************************************)
(* Quiz: what a render derives from the state                              *)
(***************************************************************************)
Null == -1

\* Line 176: id: index + 1.
questionId(i) == i + 1

\* Line 197: selectedAnswers.get(currentQuestion.id) ?? null
selectedAnswer ==
    IF questionId(currentQuestionIndex) \in DOMAIN selectedAnswers
    THEN selectedAnswers[questionId(currentQuestionIndex)]
    ELSE Null

\* Line 198.
isAnswered == questionId(currentQuestionIndex) \in answeredQuestions

\* Variant: every submitted answer counts as correct.
answerAlwaysMatches(answer, i) == TRUE

\* Lines 201 and 211: answer === questions[i].correctAnswer
answerMatches(answer, i) == answer = correctAnswers[questionId(i)]

\* Lines 199-202: isCorrect as a condition (null and false are both falsy).
isCorrect ==
    /\ ~(~isAnswered \/ selectedAnswer = Null)
    /\ answerMatches(selectedAnswer, currentQuestionIndex)

\* Lines 256 and 324: the Submit button is rendered.
submitOffered == quizState = "in-progress" /\ ~isAnswered

\* Lines 256 and 341: the Next button is rendered.
nextOffered ==
    /\ quizState = "in-progress"
    /\ isAnswered /\ isCorrect /\ currentQuestionIndex < NumQuestions - 1

\* Map.set and Map.delete
mapSet(m, k, v) == [x \in DOMAIN m \cup {k} |-> IF x = k THEN v ELSE m[x]]
mapDelete(m, k) == [x \in DOMAIN m \ {k} |-> m[x]]

QuizUnmounted ==
    /\ correctAnswers = <<>> /\ currentQuestionIndex = 0
    /\ selectedAnswers = <<>> /\ answeredQuestions = {}
    /\ quizState = "unmounted" /\ verificationState = "none"
    /\ pendingQuestionIndex = Null /\ quizEvent = "none" /\ correctLog = <<>>

(***************************************************************************)
(* LanguageSelect: the highlight of the option list                        *)
(***************************************************************************)
\* Lines 60-72: the effect on [filteredLanguages, open], run after a render in
\* which one of them changed; keep is the index the handler left.
highlightAfterEffect(newOpen, newCount, keep, depsChanged) ==
    IF depsChanged /\ newOpen
    THEN (IF newCount > 0 THEN 0 ELSE -1)
    ELSE keep

\* Line 146: prev < maxIndex ? prev + 1 : 0
arrowDownNext(prev, maxIndex) == IF prev < maxIndex THEN prev + 1 ELSE 0

\* Line 172: prev > 0 ? prev - 1 : maxIndex
arrowUpNext(prev, maxIndex) == IF prev > 0 THEN prev - 1 ELSE maxIndex

\* The index a pending requestAnimationFrame callback sets: lines 105-117 read the
\* option list when they run, lines 134-141 and 159-167 use the list their key
\* press saw (len).
rafResult(cb, count, keep) ==
    IF cb.kind = "openChange" THEN (IF count > 0 THEN 0 ELSE -1)
    ELSE IF cb.kind = "arrowDownOpen" THEN (IF cb.len > 0 THEN 0 ELSE keep)
    ELSE (IF cb.len > 0 THEN cb.len - 1 ELSE keep)

LanguageSelectUnmounted ==
    /\ open = FALSE /\ filteredCount = 0 /\ highlightedIndex = -1
    /\ rafQueue = <<>> /\ lsEvent = "none"

(***************************************************************************)
(* RotatingText: strings are sequences of code units; the unit Mark joins  *)
(* the grapheme cluster of the unit before it (a combining mark, a low     *)
(* surrogate, a joiner).                                                   *)
(***************************************************************************)
Mark == "m"

\* The locales' rotatingMessages entries are drawn from these strings.
Msgs == {<<"a">>, <<"b", Mark>>, <<"c", Mark, "d">>}

Languages == {"en", "es"}

MessageLists == UNION {[1..n -> Msgs] : n \in 0..MaxMessages}

RECURSIVE segment(_, _)
segment(text, acc) ==
    IF text = <<>> THEN acc
    ELSE IF Head(text) = Mark /\ acc # <<>>
         THEN segment(Tail(text), [acc EXCEPT ![Len(acc)] = Append(@, Head(text))])
         ELSE segment(Tail(text), Append(acc, <<Head(text)>>))

\* Variant: one element per code unit (text.split('')).
getGraphemesByCodeUnit(text) == [i \in 1..Len(text) |-> <<text[i]>>]

\* Lines 111-120: the grapheme clusters of a string, in order.
getGraphemes(text) == segment(text, <<>>)

\* graphemes.slice(0, n).join('')
RECURSIVE sliceJoin(_, _)
sliceJoin(graphemes, n) ==
    IF n <= 0 \/ graphemes = <<>> THEN <<>>
    ELSE Head(graphemes) \o sliceJoin(Tail(graphemes), n - 1)

typeSpeed == 80
deleteSpeed == 60
pauseDelay == 2000
startDelay == 3000

NoTimeout == [fn |-> "none", arg |-> 0, delay |-> 0]

\* Lines 89-93: messagesRef.current, the messages of the current language.
messagesRef == IF currentLanguage \in DOMAIN locales THEN locales[currentLanguage] ELSE <<>>

\* Line 123: messagesRef.current[currentIndexRef.current] is defined.
hasCurrentMessage == currentIndexRef < Len(messagesRef)

currentMessage == At(messagesRef, currentIndexRef)

\* Lines 96-97 and 164-179: the body of the animation effect, given the messages of
\* the render it belongs to; textContent is empty after it in every case.
startTyping(msgs, initial, keepIndex) ==
    IF Len(msgs) = 0
    THEN [timeout |-> NoTimeout, isInitialMount |-> initial, currentIndexRef |-> keepIndex]
    ELSE IF initial
         THEN [timeout |-> [fn |-> "typeChar", arg |-> 0, delay |-> startDelay],
               isInitialMount |-> FALSE, currentIndexRef |-> 0]
         ELSE [timeout |-> [fn |-> "typeChar", arg |-> 0, delay |-> 100],
               isInitialMount |-> FALSE, currentIndexRef |-> keepIndex]

RotatingTextUnmounted ==
    /\ locales = <<>> /\ currentLanguage = "" /\ currentIndexRef = 0
    /\ currentGraphemesRef = <<>> /\ textContent = <<>> /\ timeoutRef = NoTimeout
    /\ isInitialMount = TRUE /\ rtMounted = FALSE /\ rtEvent = "none"

(***************************************************************************)
(* The translations edge function: language codes are sequences of         *)
(* characters, a lowercase letter "a", an uppercase letter "A" and "-".    *)
(***************************************************************************)
CodeChars == {"a", "A", "-"}

LanguageCodes == UNION {[1..n -> CodeChars] : n \in 0..MaxCodeLen}

charClass(c) == IF c = "a" THEN "lower" ELSE IF c = "A" THEN "upper" ELSE "other"

\* Line 35: the pattern ^[a-z]{2}(-[A-Z]{2})?$ as the classes [a-z][a-z] and the
\* optional group -[A-Z][A-Z].
CodeHead == <<"lower", "lower">>
CodeRegion == <<"upper", "upper">>

\* text starts with one character of each class of classes, in order.
RECURSIVE matchClasses(_, _)
matchClasses(classes, text) ==
    IF classes = <<>> THEN TRUE
    ELSE /\ text # <<>>
         /\ charClass(Head(text)) = Head(classes)
         /\ matchClasses(Tail(classes), Tail(text))

dropChars(text, n) == SubSeq(text, n + 1, Len(text))

\* Variant: the pattern without the closing $.
regexTestNoEnd(code) ==
    /\ matchClasses(CodeHead, code)

\* Line 35: /^[a-z]{2}(-[A-Z]{2})?$/.test(language)
regexTest(code) ==
    /\ matchClasses(CodeHead, code)
    /\ LET rest == dropChars(code, Len(CodeHead))
       IN  \/ rest = <<>>
           \/ /\ rest # <<>> /\ Head(rest) = "-"
              /\ matchClasses(CodeRegion, Tail(rest))
              /\ dropChars(Tail(rest), Len(CodeRegion)) = <<>>

\* Line 35: !language || !regex.test(language)
invalidLanguage(code) == code = <<>> \/ ~regexTest(code)

\* An environment variable is undefined, empty or holds a value.
Undefined == "undefined"
truthy(v) == v # Undefined /\ v # ""

NoEnv == [B2_BUCKET_URL |-> Undefined, B2_BUCKET_NAME |-> Undefined, B2_DOWNLOAD_URL |-> Undefined]

Envs == [B2_BUCKET_URL : {Undefined, "", "https://bucket.example"},
         B2_BUCKET_NAME : {Undefined, "", "bucket-name"},
         B2_DOWNLOAD_URL : {Undefined, "", "https://download.example"}]

\* No URL: B2 is not configured.
NoUrl == [base |-> "", bucket |-> "", language |-> <<>>]

\* Lines 45-51: the URL of the file, <base>/translations/<language>.json or
\* <base>/file/<bucket>/translations/<language>.json.
b2Url(env, code) ==
    IF truthy(env.B2_BUCKET_URL)
    THEN [base |-> env.B2_BUCKET_URL, bucket |-> "", language |-> code]
    ELSE IF truthy(env.B2_BUCKET_NAME) /\ truthy(env.B2_DOWNLOAD_URL)
         THEN [base |-> env.B2_DOWNLOAD_URL, bucket |-> env.B2_BUCKET_NAME, language |-> code]
         ELSE NoUrl

\* What fetch and response.json() can do: fetch throws, or B2 answers with a
\* status and a body that parses as JSON or not.
B2Statuses == {200, 206, 403, 404, 500}
B2Outcomes == {[kind |-> "throws", status |-> 0, json |-> FALSE]}
              \cup [kind : {"response"}, status : B2Statuses, json : BOOLEAN]

\* response.ok
responseOk(outcome) == outcome.kind = "response" /\ outcome.status \in 200..299

\* Lines 73-119: the status returned once fetch settled.
statusAfterFetch(outcome) ==
    IF outcome.kind = "throws" THEN 500
    ELSE IF ~responseOk(outcome)
         THEN (IF outcome.status = 404 THEN 404 ELSE 500)
         ELSE (IF outcome.json THEN 200 ELSE 500)

NoOutcome == [kind |-> "none", status |-> 0, json |-> FALSE]

TranslationsUnused ==
    /\ fnLanguage = <<>> /\ fnEnv = NoEnv /\ fnPc = "none"
    /\ b2Requests = <<>> /\ b2Answer = NoOutcome /\ fnStatus = 0

(***************************************************************************)
(* The pipeline of the ChatExample component                               *)
(***************************************************************************)
EmptyMap == [d \in {} |-> 0]

InitChat ==
    /\ today \in Todays
    /\ convType \in {"bad", "good"}
    /\ rawCount \in 0..MaxMsgs
    /\ pc = "walk"
    /\ daysBack = 0
    /\ weekdayCount = 0
    /\ walked = {}
    /\ availableDates = <<>>
    /\ messages = <<>>
    /\ dateBreaks = <<>>
    /\ lastTimeIndexByDate = EmptyMap
    /\ index = 0
    /\ trace = <<>>
    /\ hoursInput = NoMatch
    /\ hoursResult = "unset"
    /\ BlackjackUnmounted
    /\ QuizUnmounted
    /\ HandUnused
    /\ LanguageSelectUnmounted
    /\ RotatingTextUnmounted
    /\ TranslationsUnused

\* generateDates, lines 126-140: one iteration of the while loop.
WalkStep ==
    /\ pc = "walk"
    /\ LET checkDate == today - daysBack
           wc == IF isWeekdayNumber(getDay(checkDate)) THEN weekdayCount + 1 ELSE weekdayCount
           db == daysBack + 1
       IN  /\ weekdayCount' = wc
           /\ daysBack' = db
           /\ walked' = walked \cup {checkDate}
           /\ pc' = IF db > SafetyLimit \/ ~walkContinues(wc, db) THEN "build" ELSE "walk"
    /\ UNCHANGED <<today, convType, rawCount, availableDates, messages, dateBreaks,
                   lastTimeIndexByDate, index, trace>>
    /\ UNCHANGED notChat

\* generateDates, lines 142-149: the window.
BuildDates ==
    /\ pc = "build"
    /\ availableDates' = buildDates(today, daysBack)
    /\ pc' = "senders"
    /\ UNCHANGED <<today, convType, rawCount, daysBack, weekdayCount, walked, messages,
                   dateBreaks, lastTimeIndexByDate, index, trace>>
    /\ UNCHANGED notChat

\* assignMessagesToUsers, lines 452-465: the first pass.
AssignSenders ==
    /\ pc = "senders"
    /\ messages' = [k \in 1..rawCount |->
                      [sender |-> getSenderForMessage(convType, k - 1),
                       date |-> today,
                       timestamp |-> EmptyTimestamp,
                       dateBreakIndex |-> 0]]
    /\ pc' = "breaks"
    /\ UNCHANGED <<today, convType, rawCount, daysBack, weekdayCount, walked, availableDates,
                   dateBreaks, lastTimeIndexByDate, index, trace>>
    /\ UNCHANGED notChat

\* generateTimestamps, lines 264-283: the date breaks and the empty map.
ComputeBreaks ==
    /\ pc = "breaks"
    /\ dateBreaks' = computeDateBreaks(messages)
    /\ lastTimeIndexByDate' = EmptyMap
    /\ index' = 0
    /\ pc' = IF Len(messages) = 0 THEN "done" ELSE "assign"
    /\ UNCHANGED <<today, convType, rawCount, daysBack, weekdayCount, walked, availableDates,
                   messages, trace>>
    /\ UNCHANGED notChat

\* generateTimestamps, lines 285-438: one iteration of messages.forEach.
AssignMessage ==
    /\ pc = "assign"
    /\ LET r == processMessage(messages, availableDates, dateBreaks, lastTimeIndexByDate, index)
       IN  /\ messages' = [messages EXCEPT ![index + 1] = r.msg]
           /\ lastTimeIndexByDate' = r.lastMap
           /\ trace' = Append(trace, r.trace)
    /\ index' = index + 1
    /\ pc' = IF index + 1 >= Len(messages) THEN "done" ELSE "assign"
    /\ UNCHANGED <<today, convType, rawCount, daysBack, weekdayCount, walked, availableDates,
                   dateBreaks>>
    /\ UNCHANGED notChat

NextChat == WalkStep \/ BuildDates \/ AssignSenders \/ ComputeBreaks \/ AssignMessage

SpecChat == InitChat /\ [][NextChat]_vars

(***************************************************************************)
(* isWithinBusinessHours applied to one time string                        *)
(***************************************************************************)
TimeStrings ==
    {Time(h, m, p) : h \in 1..12, m \in 0..59, p \in {"AM", "PM"}} \cup {NoMatch}

InitHours ==
    /\ hoursInput \in TimeStrings
    /\ hoursResult = "unset"
    /\ today = 21 /\ convType = "bad" /\ rawCount = 0 /\ pc = "idle"
    /\ daysBack = 0 /\ weekdayCount = 0 /\ walked = {}
    /\ availableDates = <<>> /\ messages = <<>> /\ dateBreaks = <<>>
    /\ lastTimeIndexByDate = EmptyMap /\ index = 0 /\ trace = <<>>
    /\ BlackjackUnmounted
    /\ QuizUnmounted
    /\ HandUnused
    /\ LanguageSelectUnmounted
    /\ RotatingTextUnmounted
    /\ TranslationsUnused

CheckHours ==
    /\ hoursResult = "unset"
    /\ hoursResult' = IF isWithinBusinessHours(hoursInput) THEN "inside" ELSE "outside"
    /\ UNCHANGED hoursInput
    /\ UNCHANGED notHours

NextHours == CheckHours

SpecHours == InitHours /\ [][NextHours]_vars

(***************************************************************************)
(* BlackjackVerification: the mounted component                            *)
(***************************************************************************)
ChatUnused ==
    /\ today = 21 /\ convType = "bad" /\ rawCount = 0 /\ pc = "idle"
    /\ daysBack = 0 /\ weekdayCount = 0 /\ walked = {}
    /\ availableDates = <<>> /\ messages = <<>> /\ dateBreaks = <<>>
    /\ lastTimeIndexByDate = EmptyMap /\ index = 0 /\ trace = <<>>

HoursUnused == hoursInput = NoMatch /\ hoursResult = "unset"

\* Lines 86-95: the useState initializer.
InitBlackjack ==
    /\ playerHand \in NewHands
    /\ dealerHand \in NewHands
    /\ gameStatus = "playing"
    /\ isDealerRevealed = FALSE
    /\ resultTimer = "none"
    /\ passedCalls = 0
    /\ bjEvent = "mount"
    /\ ChatUnused
    /\ HoursUnused
    /\ QuizUnmounted
    /\ HandUnused
    /\ LanguageSelectUnmounted
    /\ RotatingTextUnmounted
    /\ TranslationsUnused

\* Lines 98-141: the state playDealerTurn sets, for one outcome of the draws.
playDealerTurn(currentPlayerHand) ==
    \E finalCards \in dealerDraws(dealerHand.cards) :
        LET dealer == makeHand(finalCards)
            status == determineWinner(currentPlayerHand, dealer)
        IN  /\ playerHand' = currentPlayerHand
            /\ dealerHand' = dealer
            /\ gameStatus' = status
            /\ isDealerRevealed' = TRUE
            /\ resultTimer' = timerFor(status)

\* Variant: a busting Hit that leaves the round in 'playing'.
HandleHitKeepsPlaying ==
    /\ hitAccepted
    /\ Len(playerHand.cards) < 2 + MaxHits
    /\ \E newCard \in Cards :
          playerHand' = makeHand(Append(playerHand.cards, newCard))
    /\ bjEvent' = "hit"
    /\ UNCHANGED <<dealerHand, gameStatus, isDealerRevealed, resultTimer, passedCalls>>
    /\ UNCHANGED notBlackjack

\* Lines 160-188: handleHit when it does not return early, with the result
\* effect of the render that follows.
HandleHit ==
    /\ hitAccepted
    /\ Len(playerHand.cards) < 2 + MaxHits
    /\ \E newCard \in Cards :
          LET newPlayerHand == makeHand(Append(playerHand.cards, newCard))
          IN  /\ playerHand' = newPlayerHand
              /\ IF newPlayerHand.isBusted
                 THEN /\ gameStatus' = "dealer-won"
                      /\ isDealerRevealed' = TRUE
                      /\ resultTimer' = timerFor("dealer-won")
                 ELSE UNCHANGED <<gameStatus, isDealerRevealed, resultTimer>>
    /\ bjEvent' = "hit"
    /\ UNCHANGED <<dealerHand, passedCalls>>
    /\ UNCHANGED notBlackjack

\* Lines 190-194: handleStand when it does not return early.
HandleStand ==
    /\ standAccepted
    /\ playDealerTurn(playerHand)
    /\ bjEvent' = "stand"
    /\ UNCHANGED passedCalls
    /\ UNCHANGED notBlackjack

\* Variant: an effect that acts on a busted hand only.
AutoDealerEffectBustOnly ==
    /\ gameStatus = "playing" /\ ~isDealerRevealed
    /\ playerHand.isBusted
    /\ bjEvent' = "auto"
    /\ gameStatus' = "dealer-won"
    /\ isDealerRevealed' = TRUE
    /\ resultTimer' = timerFor("dealer-won")
    /\ UNCHANGED <<playerHand, dealerHand, passedCalls>>
    /\ UNCHANGED notBlackjack

\* Lines 144-158: the effect that plays the dealer automatically.
AutoDealerEffect ==
    /\ gameStatus = "playing" /\ ~isDealerRevealed
    /\ playerHand.isBusted \/ playerHand.total = 21
    /\ bjEvent' = "auto"
    /\ IF playerHand.isBusted
       THEN /\ gameStatus' = "dealer-won"
            /\ isDealerRevealed' = TRUE
            /\ resultTimer' = timerFor("dealer-won")
            /\ UNCHANGED <<playerHand, dealerHand>>
       ELSE playDealerTurn(playerHand)
    /\ UNCHANGED passedCalls
    /\ UNCHANGED notBlackjack

\* Lines 198-203: the 1500 ms timer of 'player-won' fires.
VerifyTimerFires ==
    /\ resultTimer = "verify"
    /\ passedCalls' = passedCalls + 1
    /\ resultTimer' = "none"
    /\ bjEvent' = "verify"
    /\ UNCHANGED <<playerHand, dealerHand, gameStatus, isDealerRevealed>>
    /\ UNCHANGED notBlackjack

\* Variant: a reset that deals the player only and leaves the dealer's side as it is.
ResetTimerKeepsDealer ==
    /\ resultTimer = "reset"
    /\ playerHand' \in NewHands
    /\ gameStatus' = "playing"
    /\ resultTimer' = timerFor("playing")
    /\ bjEvent' = "reset"
    /\ UNCHANGED <<dealerHand, isDealerRevealed, passedCalls>>
    /\ UNCHANGED notBlackjack

\* Lines 204-216: the 2000 ms timer of 'dealer-won' or 'tie' fires.
ResetTimerFires ==
    /\ resultTimer = "reset"
    /\ playerHand' \in NewHands
    /\ dealerHand' \in NewHands
    /\ gameStatus' = "playing"
    /\ isDealerRevealed' = FALSE
    /\ resultTimer' = timerFor("playing")
    /\ bjEvent' = "reset"
    /\ UNCHANGED passedCalls
    /\ UNCHANGED notBlackjack

NextBlackjack ==
    HandleHit \/ HandleStand \/ AutoDealerEffect \/ VerifyTimerFires \/ ResetTimerFires

SpecBlackjack == InitBlackjack /\ [][NextBlackjack]_vars

\* The timers of a mounted component fire; clicks need not happen.
FairBlackjack ==
    /\ WF_vars(VerifyTimerFires)
    /\ WF_vars(ResetTimerFires)

SpecBlackjackFair == SpecBlackjack /\ FairBlackjack

\* Lines 145-153: the condition under which the auto-dealer effect acts.
autoDealerPending ==
    /\ gameStatus = "playing" /\ ~isDealerRevealed
    /\ playerHand.isBusted \/ playerHand.total = 21

\* An effect runs after the render that scheduled it: weak fairness of
\* AutoDealerEffect, written with its enabling condition autoDealerPending.
FairAutoDealer ==
    []<>(~autoDealerPending) \/ []<><<AutoDealerEffect>>_vars

SpecBlackjackEffects == SpecBlackjack /\ FairBlackjack /\ FairAutoDealer

(***************************************************************************)
(* Quiz: the mounted component                                             *)
(***************************************************************************)
\* Lines 146-151: the useState initial values; the questions come from the
\* translations.
InitQuiz ==
    /\ correctAnswers \in [1..NumQuestions -> 0..(NumOptions - 1)]
    /\ currentQuestionIndex = 0
    /\ selectedAnswers = <<>>
    /\ answeredQuestions = {}
    /\ quizState = "in-progress"
    /\ verificationState = "none"
    /\ pendingQuestionIndex = Null
    /\ quizEvent = "mount"
    /\ correctLog = <<>>
    /\ ChatUnused
    /\ HoursUnused
    /\ BlackjackUnmounted
    /\ HandUnused
    /\ LanguageSelectUnmounted
    /\ RotatingTextUnmounted
    /\ TranslationsUnused

\* Lines 224-231.
handleNextQuestion ==
    IF currentQuestionIndex < NumQuestions - 1
    THEN currentQuestionIndex' = currentQuestionIndex + 1 /\ UNCHANGED quizState
    ELSE quizState' = "completed" /\ UNCHANGED currentQuestionIndex

\* Lines 204-206, called by an option button that is not disabled (part_007
\* lines 63-69 of QuizQuestion).
HandleAnswer ==
    /\ quizState = "in-progress"
    /\ ~isAnswered
    /\ \E answerIndex \in 0..(NumOptions - 1) :
          selectedAnswers' = mapSet(selectedAnswers, questionId(currentQuestionIndex), answerIndex)
    /\ quizEvent' = "select"
    /\ UNCHANGED <<correctAnswers, currentQuestionIndex, answeredQuestions, quizState,
                   verificationState, pendingQuestionIndex, correctLog>>
    /\ UNCHANGED notQuiz

\* Variant: a wrong answer opens the gate without recording the pending question.
handleSubmitAnswerNoPending ==
    /\ selectedAnswer # Null
    /\ answeredQuestions' = answeredQuestions \cup {questionId(currentQuestionIndex)}
    /\ IF ~answerMatches(selectedAnswer, currentQuestionIndex)
       THEN /\ verificationState' = "required"
            /\ UNCHANGED <<pendingQuestionIndex, currentQuestionIndex, quizState, correctLog>>
       ELSE /\ handleNextQuestion
            /\ correctLog' = Append(correctLog, currentQuestionIndex)
            /\ UNCHANGED <<pendingQuestionIndex, verificationState>>

\* Lines 208-222: handleSubmitAnswer.
handleSubmitAnswer ==
    /\ selectedAnswer # Null
    /\ answeredQuestions' = answeredQuestions \cup {questionId(currentQuestionIndex)}
    /\ IF ~answerMatches(selectedAnswer, currentQuestionIndex)
       THEN /\ pendingQuestionIndex' = currentQuestionIndex
            /\ verificationState' = "required"
            /\ UNCHANGED <<currentQuestionIndex, quizState, correctLog>>
       ELSE /\ handleNextQuestion
            /\ correctLog' = Append(correctLog, currentQuestionIndex)
            /\ UNCHANGED <<pendingQuestionIndex, verificationState>>

\* Lines 324-350: a click on the button under the question: Next when it is
\* rendered, Submit otherwise.
ClickSubmitOrNext ==
    /\ quizState = "in-progress"
    /\ IF nextOffered
       THEN /\ handleNextQuestion
            /\ quizEvent' = "next"
            /\ UNCHANGED <<answeredQuestions, pendingQuestionIndex, verificationState,
                           correctLog>>
       ELSE /\ submitOffered
            /\ handleSubmitAnswer
            /\ quizEvent' = "submit"
    /\ UNCHANGED <<correctAnswers, selectedAnswers>>
    /\ UNCHANGED notQuiz

\* Variant: the retry keeps the answered mark.
VerificationPassedKeepsMark ==
    /\ verificationState = "required"
    /\ IF pendingQuestionIndex # Null
       THEN /\ selectedAnswers' = mapDelete(selectedAnswers, questionId(pendingQuestionIndex))
            /\ currentQuestionIndex' = pendingQuestionIndex
            /\ pendingQuestionIndex' = Null
       ELSE UNCHANGED <<selectedAnswers, currentQuestionIndex, pendingQuestionIndex>>
    /\ verificationState' = "none"
    /\ quizEvent' = "passed"
    /\ UNCHANGED <<correctAnswers, answeredQuestions, quizState, correctLog>>
    /\ UNCHANGED notQuiz

\* Lines 233-252: handleVerificationPassed, called by the blackjack gate, which is
\* mounted while verificationState is 'required' (lines 355-357).
VerificationPassed ==
    /\ verificationState = "required"
    /\ IF pendingQuestionIndex # Null
       THEN /\ selectedAnswers' = mapDelete(selectedAnswers, questionId(pendingQuestionIndex))
            /\ answeredQuestions' = answeredQuestions \ {questionId(pendingQuestionIndex)}
            /\ currentQuestionIndex' = pendingQuestionIndex
            /\ pendingQuestionIndex' = Null
       ELSE UNCHANGED <<selectedAnswers, answeredQuestions, currentQuestionIndex,
                        pendingQuestionIndex>>
    /\ verificationState' = "none"
    /\ quizEvent' = "passed"
    /\ UNCHANGED <<correctAnswers, quizState, correctLog>>
    /\ UNCHANGED notQuiz

NextQuiz == HandleAnswer \/ ClickSubmitOrNext \/ VerificationPassed

SpecQuiz == InitQuiz /\ [][NextQuiz]_vars

(***************************************************************************)
(* calculateHandTotal applied to one hand of cards 1..13                   *)
(***************************************************************************)
Hands == UNION {[1..n -> 1..13] : n \in 0..MaxHandLen}

InitHand ==
    /\ handCards \in Hands
    /\ handResult = NoResult
    /\ ChatUnused
    /\ HoursUnused
    /\ BlackjackUnmounted
    /\ QuizUnmounted
    /\ LanguageSelectUnmounted
    /\ RotatingTextUnmounted
    /\ TranslationsUnused

CalculateHand ==
    /\ handResult = NoResult
    /\ handResult' = calculateHandTotal(handCards)
    /\ UNCHANGED handCards
    /\ UNCHANGED notHand

NextHand == CalculateHand

SpecHand == InitHand /\ [][NextHand]_vars

(***************************************************************************)
(* LanguageSelect: the mounted component with its languages loaded         *)
(***************************************************************************)
\* Lines 12-14: closed, empty query (every language is listed), no highlight.
InitLanguageSelect ==
    /\ open = FALSE
    /\ filteredCount = NumLanguages
    /\ highlightedIndex = -1
    /\ rafQueue = <<>>
    /\ lsEvent = "mount"
    /\ ChatUnused
    /\ HoursUnused
    /\ BlackjackUnmounted
    /\ QuizUnmounted
    /\ HandUnused
    /\ RotatingTextUnmounted
    /\ TranslationsUnused

\* Lines 127-152: handleKeyDown, ArrowDown.
KeyArrowDown ==
    /\ IF ~open
       THEN /\ Len(rafQueue) < MaxRaf
            /\ open' = TRUE
            /\ rafQueue' = Append(rafQueue, [kind |-> "arrowDownOpen", len |-> filteredCount])
            /\ highlightedIndex' =
                   highlightAfterEffect(TRUE, filteredCount, highlightedIndex, TRUE)
       ELSE /\ highlightedIndex' = arrowDownNext(highlightedIndex, filteredCount - 1)
            /\ UNCHANGED <<open, rafQueue>>
    /\ lsEvent' = "ArrowDown"
    /\ UNCHANGED filteredCount
    /\ UNCHANGED notLanguageSelect

\* Lines 153-178: handleKeyDown, ArrowUp.
KeyArrowUp ==
    /\ IF ~open
       THEN /\ Len(rafQueue) < MaxRaf
            /\ open' = TRUE
            /\ rafQueue' = Append(rafQueue, [kind |-> "arrowUpOpen", len |-> filteredCount])
            /\ highlightedIndex' =
                   highlightAfterEffect(TRUE, filteredCount, highlightedIndex, TRUE)
       ELSE /\ highlightedIndex' = arrowUpNext(highlightedIndex, filteredCount - 1)
            /\ UNCHANGED <<open, rafQueue>>
    /\ lsEvent' = "ArrowUp"
    /\ UNCHANGED filteredCount
    /\ UNCHANGED notLanguageSelect

\* Lines 84-94: handleChange (the query is emptied, so every language is listed).
handleChange ==
    /\ filteredCount' = NumLanguages
    /\ open' = FALSE
    /\ UNCHANGED <<highlightedIndex, rafQueue>>

\* Lines 179-196: handleKeyDown, Enter.
KeyEnter ==
    /\ IF ~open
       THEN /\ open' = TRUE
            /\ highlightedIndex' =
                   highlightAfterEffect(TRUE, filteredCount, highlightedIndex, TRUE)
            /\ UNCHANGED <<filteredCount, rafQueue>>
       ELSE IF filteredCount > 0
            THEN handleChange
            ELSE UNCHANGED <<open, filteredCount, highlightedIndex, rafQueue>>
    /\ lsEvent' = "Enter"
    /\ UNCHANGED notLanguageSelect

\* Lines 197-208: handleKeyDown, Escape and Tab.
KeyEscapeOrTab ==
    /\ open
    /\ open' = FALSE
    /\ lsEvent' = "Escape"
    /\ UNCHANGED <<filteredCount, highlightedIndex, rafQueue>>
    /\ UNCHANGED notLanguageSelect

\* Lines 97-119: handleOpenChange, called by the popover.
HandleOpenChange ==
    /\ \E newOpen \in BOOLEAN :
          IF ~newOpen
          THEN /\ open' = FALSE
               /\ filteredCount' = NumLanguages
               /\ highlightedIndex' = -1
               /\ UNCHANGED rafQueue
          ELSE /\ Len(rafQueue) < MaxRaf
               /\ open' = TRUE
               /\ rafQueue' = Append(rafQueue, [kind |-> "openChange", len |-> 0])
               /\ highlightedIndex' =
                      highlightAfterEffect(TRUE, filteredCount, highlightedIndex, ~open)
               /\ UNCHANGED filteredCount
    /\ lsEvent' = "openChange"
    /\ UNCHANGED notLanguageSelect

\* Lines 269-276: onChange of the input; the new query leaves any number of
\* languages.
InputChange ==
    /\ \E newCount \in 0..NumLanguages :
          /\ filteredCount' = newCount
          /\ highlightedIndex' = highlightAfterEffect(TRUE, newCount, highlightedIndex, TRUE)
    /\ open' = TRUE
    /\ lsEvent' = "input"
    /\ UNCHANGED rafQueue
    /\ UNCHANGED notLanguageSelect

\* Line 368: a click on an option.
OptionClick ==
    /\ open /\ filteredCount > 0
    /\ handleChange
    /\ lsEvent' = "select"
    /\ UNCHANGED notLanguageSelect

\* Lines 381 and 557-558: the pointer enters or leaves an option.
OptionMouse ==
    /\ open /\ filteredCount > 0
    /\ highlightedIndex' \in -1..(filteredCount - 1)
    /\ lsEvent' = "mouse"
    /\ UNCHANGED <<open, filteredCount, rafQueue>>
    /\ UNCHANGED notLanguageSelect

\* The next animation frame runs the oldest pending callback.
AnimationFrame ==
    /\ rafQueue # <<>>
    /\ highlightedIndex' = rafResult(Head(rafQueue), filteredCount, highlightedIndex)
    /\ rafQueue' = Tail(rafQueue)
    /\ lsEvent' = "frame"
    /\ UNCHANGED <<open, filteredCount>>
    /\ UNCHANGED notLanguageSelect

NextLanguageSelect ==
    \/ KeyArrowDown \/ KeyArrowUp \/ KeyEnter \/ KeyEscapeOrTab \/ HandleOpenChange
    \/ InputChange \/ OptionClick \/ OptionMouse \/ AnimationFrame

SpecLanguageSelect == InitLanguageSelect /\ [][NextLanguageSelect]_vars

(***************************************************************************)
(* RotatingText: the mounted component, its timers and language changes    *)
(***************************************************************************)
\* Lines 67-93 and the first run of the effect 95-187; i18n starts in 'en'.
InitRotatingText ==
    /\ locales \in [Languages -> MessageLists]
    /\ currentLanguage = "en"
    /\ LET start == startTyping(locales["en"], TRUE, 0)
       IN  /\ timeoutRef = start.timeout
           /\ isInitialMount = start.isInitialMount
           /\ currentIndexRef = start.currentIndexRef
    /\ currentGraphemesRef = <<>>
    /\ textContent = <<>>
    /\ rtMounted = TRUE
    /\ rtEvent = "mount"
    /\ ChatUnused
    /\ HoursUnused
    /\ BlackjackUnmounted
    /\ QuizUnmounted
    /\ HandUnused
    /\ LanguageSelectUnmounted
    /\ TranslationsUnused

\* Lines 122-141: a timer runs typeChar(graphemeIndex).
TypeCharTimer ==
    /\ timeoutRef.fn = "typeChar"
    /\ LET graphemeIndex == timeoutRef.arg
           graphemes == IF Len(currentGraphemesRef) = 0 \/ graphemeIndex = 0
                        THEN getGraphemes(currentMessage)
                        ELSE currentGraphemesRef
       IN  IF ~hasCurrentMessage
           THEN /\ timeoutRef' = NoTimeout
                /\ rtEvent' = "noMessage"
                /\ UNCHANGED <<currentGraphemesRef, textContent>>
           ELSE /\ currentGraphemesRef' = graphemes
                /\ IF graphemeIndex < Len(graphemes)
                   THEN /\ textContent' = sliceJoin(graphemes, graphemeIndex + 1)
                        /\ timeoutRef' = [fn |-> "typeChar", arg |-> graphemeIndex + 1,
                                          delay |-> typeSpeed]
                        /\ rtEvent' = "type"
                   ELSE /\ timeoutRef' = [fn |-> "deleteChar", arg |-> Len(graphemes),
                                          delay |-> pauseDelay]
                        /\ rtEvent' = "typed"
                        /\ UNCHANGED textContent
    /\ UNCHANGED <<locales, currentLanguage, currentIndexRef, isInitialMount, rtMounted>>
    /\ UNCHANGED notRotatingText

\* Lines 143-162: a timer runs deleteChar(graphemeIndex).
DeleteCharTimer ==
    /\ timeoutRef.fn = "deleteChar"
    /\ LET graphemeIndex == timeoutRef.arg
       IN  IF graphemeIndex > 0
           THEN /\ textContent' = sliceJoin(currentGraphemesRef, graphemeIndex - 1)
                /\ timeoutRef' = [fn |-> "deleteChar", arg |-> graphemeIndex - 1,
                                  delay |-> deleteSpeed]
                /\ rtEvent' = "delete"
                /\ UNCHANGED <<currentGraphemesRef, currentIndexRef>>
           ELSE /\ textContent' = <<>>
                /\ currentGraphemesRef' = <<>>
                /\ currentIndexRef' = (currentIndexRef + 1) % Len(messagesRef)
                /\ timeoutRef' = [fn |-> "typeChar", arg |-> 0, delay |-> 100]
                /\ rtEvent' = "advance"
    /\ UNCHANGED <<locales, currentLanguage, isInitialMount, rtMounted>>
    /\ UNCHANGED notRotatingText

\* Lines 70-72, 89-93, 181-186 and 95-179: i18n reports another language; the
\* component renders with its messages, the effect's cleanup clears the pending
\* timer and the effect runs again.
LanguageChanged ==
    /\ rtMounted
    /\ \E lng \in Languages \ {currentLanguage} :
          /\ currentLanguage' = lng
          /\ LET start == startTyping(locales[lng], isInitialMount, currentIndexRef)
             IN  /\ timeoutRef' = start.timeout
                 /\ isInitialMount' = start.isInitialMount
                 /\ currentIndexRef' = start.currentIndexRef
    /\ textContent' = <<>>
    /\ rtEvent' = "language"
    /\ UNCHANGED <<locales, currentGraphemesRef, rtMounted>>
    /\ UNCHANGED notRotatingText

\* Lines 181-186 and 76-78: the component is unmounted.
UnmountRotatingText ==
    /\ rtMounted
    /\ rtMounted' = FALSE
    /\ timeoutRef' = NoTimeout
    /\ rtEvent' = "unmount"
    /\ UNCHANGED <<locales, currentLanguage, currentIndexRef, currentGraphemesRef,
                   textContent, isInitialMount>>
    /\ UNCHANGED notRotatingText

NextRotatingText == TypeCharTimer \/ DeleteCharTimer \/ LanguageChanged \/ UnmountRotatingText

SpecRotatingText == InitRotatingText /\ [][NextRotatingText]_vars

\* A pending setTimeout callback runs.
FairRotatingText == WF_vars(TypeCharTimer) /\ WF_vars(DeleteCharTimer)

SpecRotatingTextFair == SpecRotatingText /\ FairRotatingText

(***************************************************************************)
(* The translations edge function: one request                             *)
(***************************************************************************)
\* Lines 23-32: a GET request for a language under an environment.
InitTranslations ==
    /\ fnLanguage \in LanguageCodes
    /\ fnEnv \in Envs
    /\ fnPc = "received"
    /\ b2Requests = <<>>
    /\ b2Answer = NoOutcome
    /\ fnStatus = 0
    /\ ChatUnused
    /\ HoursUnused
    /\ BlackjackUnmounted
    /\ QuizUnmounted
    /\ HandUnused
    /\ LanguageSelectUnmounted
    /\ RotatingTextUnmounted

\* Lines 34-71: validation, configuration and the call of fetch.
OnRequestGet ==
    /\ fnPc = "received"
    /\ IF invalidLanguage(fnLanguage)
       THEN /\ fnStatus' = 400
            /\ fnPc' = "responded"
            /\ UNCHANGED b2Requests
       ELSE IF b2Url(fnEnv, fnLanguage) = NoUrl
            THEN /\ fnStatus' = 503
                 /\ fnPc' = "responded"
                 /\ UNCHANGED b2Requests
            ELSE /\ b2Requests' = Append(b2Requests, b2Url(fnEnv, fnLanguage))
                 /\ fnPc' = "fetching"
                 /\ UNCHANGED fnStatus
    /\ UNCHANGED <<fnLanguage, fnEnv, b2Answer>>
    /\ UNCHANGED notTranslations

\* Lines 64-119: fetch settles and the function responds.
FetchSettles ==
    /\ fnPc = "fetching"
    /\ \E outcome \in B2Outcomes :
          /\ b2Answer' = outcome
          /\ fnStatus' = statusAfterFetch(outcome)
    /\ fnPc' = "responded"
    /\ UNCHANGED <<fnLanguage, fnEnv, b2Requests>>
    /\ UNCHANGED notTranslations

NextTranslations == OnRequestGet \/ FetchSettles

SpecTranslations == InitTranslations /\ [][NextTranslations]_vars

(***************************************************************************)
(* Vocabulary of the properties                                            *)
(***************************************************************************)
\* Minutes after midnight of a 12-hour clock time.
MinutesOfDay(t) == ((t.hour % 12) + (IF t.period = "PM" THEN 12 ELSE 0)) * 60 + t.minute

IsMonFri(d) == d % 7 \in 1..5

Processed == 1..Len(trace)

WindowBuilt == pc \in {"senders", "breaks", "assign", "done"}

WindowIndices == 0..(Len(availableDates) - 1)

MinOf(S) == CHOOSE x \in S : \A y \in S : x <= y
MaxOf(S) == CHOOSE x \in S : \A y \in S : x >= y

(***************************************************************************)
(* Properties                                                              *)
(***************************************************************************)

\* C1: every message of sender 'support' that generateTimestamps has assigned is
\* dated Monday-Friday and stamped with a time of day between 9:00 and 17:00,
\* for every message count, conversation type and weekday of today.
C1_SupportInBusinessHours ==
    \A k \in Processed :
        messages[k].sender = "support" =>
            /\ IsMonFri(messages[k].date)
            /\ MinutesOfDay(messages[k].timestamp) >= 9 * 60
            /\ MinutesOfDay(messages[k].timestamp) <= 17 * 60

\* C1 witness: a finished run holding a support message whose break was mapped
\* to a weekend date and one whose time index had to be clamped.
C1_Witness ==
    /\ pc = "done"
    /\ \E k \in Processed : messages[k].sender = "support" /\ trace[k].searched
    /\ \E k \in Processed :
          /\ messages[k].sender = "support"
          /\ trace[k].lastTimeIndex + 1 >= Len(businessHoursTimes)

\* C2 (as claimed): in the finished output the date of message i+1 is never
\* earlier than the date of message i.
C2_DatesNonDecreasing ==
    pc = "done" =>
        \A k \in 1..(Len(messages) - 1) : messages[k].date <= messages[k + 1].date

\* C3 (as claimed): in the finished output, messages sharing a calendar date
\* carry non-decreasing times of day in message index order, whatever the sender.
C3_TimesNonDecreasingPerDate ==
    pc = "done" =>
        \A i, j \in 1..Len(messages) :
            (i < j /\ messages[i].date = messages[j].date) =>
                MinutesOfDay(messages[i].timestamp) <= MinutesOfDay(messages[j].timestamp)

\* C4 (as claimed): a support message whose next time index on its date exceeds
\* the business-hours list is clamped to the last entry, rolled over, stamped
\* 9:00 AM and dated on a weekday strictly after its mapped date.
C4_ClampRollsOver ==
    \A k \in Processed :
        (/\ messages[k].sender = "support"
         /\ trace[k].lastTimeIndex # -1
         /\ trace[k].lastTimeIndex + 1 >= Len(businessHoursTimes)) =>
            /\ trace[k].timeIndex = Len(businessHoursTimes) - 1
            /\ trace[k].rollover
            /\ messages[k].timestamp = NineAM
            /\ IsMonFri(messages[k].date)
            /\ messages[k].date > At(availableDates, trace[k].mappedDateIndex)

\* C5 (as claimed): isWithinBusinessHours answers true exactly for the times of
\* day from 9:00 AM to 5:00 PM inclusive.
C5_InsideIffNineToFive ==
    (hoursResult # "unset" /\ hoursInput # NoMatch) =>
        ((hoursResult = "inside") <=>
            (MinutesOfDay(hoursInput) >= 9 * 60 /\ MinutesOfDay(hoursInput) <= 17 * 60))

\* C6: the window generateDates returns is a run of consecutive days in
\* ascending order ending today, with at least 4 entries, at least 3 of them
\* Monday-Friday.
C6_WindowShape ==
    WindowBuilt =>
        /\ Len(availableDates) >= 4
        /\ \A k \in 1..(Len(availableDates) - 1) : availableDates[k + 1] = availableDates[k] + 1
        /\ availableDates[Len(availableDates)] = today
        /\ Cardinality({k \in 1..Len(availableDates) : IsMonFri(availableDates[k])}) >= 3

\* C6 witness: a window built on a Sunday, where the walk crosses the weekend.
C6_Witness == WindowBuilt /\ today % 7 = 0 /\ Len(availableDates) = 6

\* C7 (as claimed): the window is exactly the set of days the backward walk
\* examined: as many dates as days walked, the first one the earliest walked day.
C7_WindowIsWalk ==
    WindowBuilt =>
        /\ Len(availableDates) = Cardinality(walked)
        /\ availableDates[1] = MinOf(walked)
        /\ availableDates[Len(availableDates)] = today
        /\ {availableDates[k] : k \in 1..Len(availableDates)} = walked

\* C7 (amended): the window is the days the backward walk examined plus the day
\* before the earliest of them: its first date is that extra day, its last date
\* is today and its length is the number of days walked plus one.
C7_WindowIsWalkPlusOne ==
    WindowBuilt =>
        /\ Len(availableDates) = Cardinality(walked) + 1
        /\ availableDates[1] = MinOf(walked) - 1
        /\ availableDates[Len(availableDates)] = today
        /\ {availableDates[k] : k \in 1..Len(availableDates)} = walked \cup {MinOf(walked) - 1}

\* C7 witness: a window built after a walk of five days (today is a Monday).
C7_Witness == WindowBuilt /\ Cardinality(walked) = 5 /\ today % 7 = 1

\* C8: with T date breaks and a window of L dates, a message of break b is first
\* mapped to window index max(0, L-1-(T-1-b)); the last break maps to today;
\* a 'you' message keeps that date; one message alone is dated today.
C8_BackwardLinearMapping ==
    /\ \A k \in Processed :
          LET b == messages[k].dateBreakIndex
              T == Len(dateBreaks)
              L == Len(availableDates)
          IN  /\ trace[k].initialIndex = Max(0, L - 1 - (T - 1 - b))
              /\ (b = T - 1 => At(availableDates, trace[k].initialIndex) = today)
              /\ (messages[k].sender = "you" =>
                      messages[k].date = At(availableDates, Max(0, L - 1 - (T - 1 - b))))
    /\ (pc = "done" /\ rawCount = 1) =>
          (Len(messages) = 1 /\ messages[1].sender = "you" /\ messages[1].date = today)

\* C8 witness: a finished run with more breaks than window dates, so that an
\* early break is clamped to the first window date and a later one is not.
C8_Witness ==
    /\ pc = "done"
    /\ Len(dateBreaks) > Len(availableDates) + 1
    /\ \E k \in Processed : messages[k].dateBreakIndex = 1 /\ trace[k].initialIndex = 0
    /\ \E k \in Processed : trace[k].initialIndex = Len(availableDates) - 2

\* C9: a support message mapped to a Saturday or Sunday is re-assigned to the
\* nearest Monday-Friday date later in the window if there is one, otherwise to
\* the nearest earlier one, and one of the two always exists; any other message
\* keeps its mapped date.
C9_WeekendReassignment ==
    \A k \in Processed :
        LET m0 == trace[k].initialIndex
            later == {i \in WindowIndices : i > m0 /\ IsMonFri(At(availableDates, i))}
            earlier == {i \in WindowIndices : i < m0 /\ IsMonFri(At(availableDates, i))}
        IN  IF messages[k].sender = "support" /\ ~IsMonFri(At(availableDates, m0))
            THEN /\ trace[k].searched
                 /\ trace[k].foundWeekday
                 /\ later \cup earlier # {}
                 /\ trace[k].mappedDateIndex = IF later # {} THEN MinOf(later) ELSE MaxOf(earlier)
                 /\ messages[k].date = At(availableDates, trace[k].mappedDateIndex)
            ELSE /\ trace[k].mappedDateIndex = m0
                 /\ messages[k].date = At(availableDates, m0)

\* C9 witness: a finished run in which one support message was moved forward
\* over a Sunday and a user message stays on a weekend date.
C9_Witness ==
    /\ pc = "done"
    /\ \E k \in Processed :
          /\ messages[k].sender = "support"
          /\ trace[k].mappedDateIndex = trace[k].initialIndex + 2
    /\ \E k \in Processed : messages[k].sender = "you" /\ ~IsMonFri(messages[k].date)

\* C10 (as claimed): for a 'you' message the next time index on its date never
\* reaches the length of the 7-entry candidate list.
C10_UserIndexBelowListLength ==
    \A k \in Processed :
        (messages[k].sender = "you" /\ trace[k].lastTimeIndex # -1) =>
            trace[k].lastTimeIndex + 1 < Len(allTimes)

\* C11: for both conversation types every message at an even index is from
\* 'you' and every message at an odd index is from 'support', inside the script
\* and beyond it (so 'bad' on 8 and 'good' on 10 messages alternate throughout).
C11_SendersAlternate ==
    pc \in {"breaks", "assign", "done"} =>
        /\ Len(messages) = rawCount
        /\ \A i \in 0..(rawCount - 1) :
              At(messages, i).sender = IF i % 2 = 0 THEN "you" ELSE "support"

\* C11 witness: the 2-entry script of 'good' applied to 10 messages, finished.
C11_Witness ==
    /\ pc = "done" /\ convType = "good" /\ rawCount = 10
    /\ At(messages, 8).sender = "you" /\ At(messages, 9).sender = "support"

\* C12: the date-break list starts with 0, is strictly ascending and holds an
\* index i > 0 exactly when i is even or message i-1 is from 'support' and
\* message i from 'you'; hence the break starts are the even indices, a break
\* holds at most two messages and message i gets dateBreakIndex floor(i/2).
C12_DateBreaks ==
    pc \in {"assign", "done"} =>
        LET starts == {dateBreaks[k] : k \in 1..Len(dateBreaks)}
        IN  /\ dateBreaks[1] = 0
            /\ \A k \in 1..(Len(dateBreaks) - 1) : dateBreaks[k] < dateBreaks[k + 1]
            /\ \A i \in 1..(rawCount - 1) :
                  (i \in starts) <=>
                      (i % 2 = 0 \/ (At(messages, i - 1).sender = "support"
                                     /\ At(messages, i).sender = "you"))
            /\ starts = {0} \cup {i \in 0..(rawCount - 1) : i % 2 = 0}
            /\ \A k \in 1..(Len(dateBreaks) - 1) : dateBreaks[k + 1] - dateBreaks[k] <= 2
            /\ \A k \in Processed : messages[k].dateBreakIndex = (k - 1) \div 2

\* C12 witness: a finished run of 9 messages, whose last break holds one message.
C12_Witness ==
    /\ pc = "done" /\ rawCount = 9
    /\ Len(dateBreaks) = 5
    /\ At(messages, 8).dateBreakIndex = 4


\* C13: onVerificationPassed is called only from a state whose gameStatus is
\* 'player-won', and once the game is in 'player-won' the call eventually happens.
C13_PassedOnlyAndEventuallyAfterWin ==
    /\ [][passedCalls' # passedCalls => gameStatus = "player-won"]_vars
    /\ [](passedCalls > 0 => gameStatus = "player-won")
    /\ (gameStatus = "player-won") ~> (passedCalls > 0)

C13_Witness == gameStatus = "player-won" /\ passedCalls > 0 /\ bjEvent = "verify"

\* C14: a round that ended 'dealer-won' or 'tie' is eventually followed by a fresh
\* round: 'playing', dealer hidden, two newly dealt cards in each hand.
C14_LostRoundIsRedealt ==
    (gameStatus \in {"dealer-won", "tie"})
        ~> (/\ bjEvent = "reset"
            /\ gameStatus = "playing"
            /\ ~isDealerRevealed
            /\ Len(playerHand.cards) = 2
            /\ Len(dealerHand.cards) = 2)

C14_Witness ==
    /\ bjEvent = "reset" /\ gameStatus = "playing" /\ ~isDealerRevealed
    /\ Len(playerHand.cards) = 2 /\ Len(dealerHand.cards) = 2

\* C15: a Hit that busts the player sets 'dealer-won' and reveals the dealer in the
\* same step, with the dealer's two cards untouched; while the busted hand stands,
\* Hit and Stand return early, the buttons are not rendered, and the only step taken
\* is the reset.
C15_BustEndsRound ==
    /\ [][(bjEvent' = "hit" /\ playerHand'.isBusted)
            => (/\ gameStatus' = "dealer-won"
                /\ isDealerRevealed'
                /\ dealerHand' = dealerHand
                /\ Len(dealerHand'.cards) = 2)]_vars
    /\ [](playerHand.isBusted => ~hitAccepted /\ ~standAccepted /\ ~controlsOffered)
    /\ [][playerHand.isBusted => bjEvent' = "reset"]_vars

C15_Witness ==
    /\ bjEvent = "hit" /\ playerHand.isBusted /\ gameStatus = "dealer-won"
    /\ isDealerRevealed /\ Len(dealerHand.cards) = 2

\* C16: an accepted Stand happens in 'playing' with the dealer hidden; the dealer keeps
\* its two cards and draws exactly until its total is at least 17, in finitely many
\* draws; afterwards the dealer is revealed, the player's hand is the same and the
\* round is no longer 'playing'.
C16_StandPlaysDealer ==
    /\ [](standAccepted => dealerDraws(dealerHand.cards) # {})
    /\ [][bjEvent' = "stand"
            => (/\ gameStatus = "playing" /\ ~isDealerRevealed
                /\ Len(dealerHand.cards) = 2
                /\ Len(dealerHand'.cards) \in 2..17
                /\ SubSeq(dealerHand'.cards, 1, 2) = dealerHand.cards
                /\ dealerHand'.total >= 17
                /\ dealerHand'.total = calculateHandTotal(dealerHand'.cards).total
                /\ \A n \in 2..(Len(dealerHand'.cards) - 1) :
                      calculateHandTotal(SubSeq(dealerHand'.cards, 1, n)).total < 17
                /\ isDealerRevealed'
                /\ playerHand' = playerHand
                /\ gameStatus' # "playing")]_vars

C16_Witness ==
    /\ bjEvent = "stand" /\ Len(dealerHand.cards) > 2 /\ isDealerRevealed
    /\ gameStatus # "playing"

\* C17: after the dealer's turn the status is 'tie' when both hands are two-card 21s,
\* else 'player-won' when the player's is, else 'player-won' when the dealer is busted
\* or the player's total is higher, else 'dealer-won' when the dealer's total is
\* higher, else 'tie'; and 'player-won' never holds with a busted player hand.
C17_Outcome ==
    LET player21 == Len(playerHand.cards) = 2 /\ playerHand.total = 21
        dealer21 == Len(dealerHand.cards) = 2 /\ dealerHand.total = 21
        expected ==
            IF player21 /\ dealer21 THEN "tie"
            ELSE IF player21 THEN "player-won"
            ELSE IF dealerHand.total > 21 \/ playerHand.total > dealerHand.total
                 THEN "player-won"
            ELSE IF dealerHand.total > playerHand.total THEN "dealer-won"
            ELSE "tie"
    IN  /\ bjEvent \in {"stand", "auto"} => gameStatus = expected
        /\ gameStatus = "player-won" => ~playerHand.isBusted

C17_Witness ==
    /\ bjEvent = "auto" /\ playerHand.isBlackjack /\ Len(dealerHand.cards) > 2
    /\ dealerHand.total = 21 /\ gameStatus = "player-won"

\* C18: a player dealt a two-card 21 is offered the Stand button while the round is
\* still 'playing'.
C18_StandOfferedOnBlackjack ==
    (gameStatus = "playing" /\ playerHand.isBlackjack) => controlsOffered

\* C19: a Submit of a wrong answer leaves currentQuestionIndex alone, marks the
\* question answered, makes it the pending question and sets verificationState to
\* 'required'; the gate's report makes the pending question current, removes its
\* selection and its answered mark, clears the pending index and sets
\* verificationState to 'none', after which the question accepts an answer again.
C19_WrongAnswerGate ==
    /\ [][(quizEvent' = "submit"
            /\ selectedAnswer # correctAnswers[questionId(currentQuestionIndex)])
            => (/\ currentQuestionIndex' = currentQuestionIndex
                /\ questionId(currentQuestionIndex) \in answeredQuestions'
                /\ pendingQuestionIndex' = currentQuestionIndex
                /\ verificationState' = "required")]_vars
    /\ [][quizEvent' = "passed"
            => (/\ pendingQuestionIndex # Null
                /\ currentQuestionIndex' = pendingQuestionIndex
                /\ questionId(pendingQuestionIndex) \notin DOMAIN selectedAnswers'
                /\ questionId(pendingQuestionIndex) \notin answeredQuestions'
                /\ pendingQuestionIndex' = Null
                /\ verificationState' = "none")]_vars
    /\ [](quizEvent = "passed" => (ENABLED HandleAnswer) /\ submitOffered)

C19_Witness ==
    /\ quizEvent = "passed" /\ verificationState = "none" /\ currentQuestionIndex > 0
    /\ pendingQuestionIndex = Null /\ ~isAnswered

\* C20: currentQuestionIndex changes only by +1 and only in a Submit of the current
\* question's correct answer; quizState becomes 'completed' only in a Submit of the
\* last question's correct answer; in 'completed' every question has been answered
\* correctly, in order.
C20_AdvanceOnlyOnCorrect ==
    /\ [][currentQuestionIndex' # currentQuestionIndex
            => (/\ currentQuestionIndex' = currentQuestionIndex + 1
                /\ quizEvent' = "submit"
                /\ selectedAnswer = correctAnswers[questionId(currentQuestionIndex)])]_vars
    /\ [][(quizState' = "completed" /\ quizState # "completed")
            => (/\ quizEvent' = "submit"
                /\ currentQuestionIndex = NumQuestions - 1
                /\ selectedAnswer = correctAnswers[questionId(currentQuestionIndex)])]_vars
    /\ [](quizState = "completed"
            => (/\ correctLog = [k \in 1..NumQuestions |-> k - 1]
                /\ answeredQuestions = 1..NumQuestions
                /\ \A q \in 1..NumQuestions :
                      q \in DOMAIN selectedAnswers /\ selectedAnswers[q] = correctAnswers[q]))

C20_Witness == quizState = "completed" /\ quizEvent = "submit"

C28_RevealedIffEnded ==
    /\ isDealerRevealed <=> gameStatus # "playing"
    /\ gameStatus = "playing" => Len(dealerHand.cards) = 2

C28_Witness ==
    /\ isDealerRevealed /\ gameStatus = "tie" /\ Len(dealerHand.cards) > 2
    /\ passedCalls = 0

\* C25: the total counts 11-13 as 10, 2-10 at face value and the aces as 11 or 1 so
\* that it is the largest total not above 21 the hand can make, or the total with
\* every ace as 1 when that is above 21; isBusted iff the total is above 21;
\* isBlackjack iff two cards totalling 21.
C25_HandTotal ==
    handResult # NoResult =>
        LET n == Len(handCards)
            aceIdx == {k \in 1..n : handCards[k] = 1}
            low(k) == IF handCards[k] >= 11 THEN 10 ELSE handCards[k]
            allLow[k \in 0..n] == IF k = 0 THEN 0 ELSE allLow[k - 1] + low(k)
            makeable == {allLow[n] + 10 * a : a \in 0..Cardinality(aceIdx)}
            fitting == {t \in makeable : t <= 21}
            best == IF fitting # {} THEN CHOOSE t \in fitting : \A u \in fitting : u <= t
                    ELSE allLow[n]
        IN  /\ handResult.total = best
            /\ handResult.isBusted <=> handResult.total > 21
            /\ handResult.isBlackjack <=> (n = 2 /\ handResult.total = 21)

C25_Witness ==
    /\ handResult # NoResult /\ Len(handCards) = 3
    /\ Cardinality({k \in 1..3 : handCards[k] = 1}) = 2 /\ handResult.total = 21

\* C26: the backward walk of generateDates makes at most 5 iterations and ends
\* because both counts are reached, never because of the 14-day cap; the window
\* has between 4 and 6 dates.
C26_WalkBounded ==
    /\ daysBack <= 5
    /\ daysBack = Cardinality(walked)
    /\ pc # "walk" => (/\ ~walkContinues(weekdayCount, daysBack)
                       /\ daysBack >= 3
                       /\ daysBack <= SafetyLimit)
    /\ WindowBuilt => (Len(availableDates) >= 4 /\ Len(availableDates) <= 6)

C26_Witness ==
    WindowBuilt /\ daysBack = 3 /\ Len(availableDates) = 4 /\ today % 7 = 5

C29_QuizInvariant ==
    /\ currentQuestionIndex >= 0 /\ currentQuestionIndex < NumQuestions
    /\ verificationState = "required" <=> pendingQuestionIndex # Null
    /\ verificationState = "required"
          => (/\ pendingQuestionIndex = currentQuestionIndex
              /\ questionId(currentQuestionIndex) \in answeredQuestions
              /\ isAnswered
              /\ ~submitOffered
              /\ ~nextOffered
              /\ ~ENABLED HandleAnswer
              /\ ~ENABLED ClickSubmitOrNext)

C29_Witness ==
    /\ verificationState = "required" /\ currentQuestionIndex = NumQuestions - 1
    /\ pendingQuestionIndex = NumQuestions - 1

IsPrefixOf(p, s) == Len(p) <= Len(s) /\ SubSeq(s, 1, Len(p)) = p

\* The number of grapheme clusters of a string that starts with no mark.
ClusterCount(t) == Cardinality({i \in 1..Len(t) : t[i] # Mark})

\* t ends where a grapheme cluster of s ends.
AtClusterEnd(t, s) == IsPrefixOf(t, s) /\ (Len(t) < Len(s) => s[Len(t) + 1] # Mark)

\* The typing or deleting of the message of language lng was cut short.
Interrupted(lng) == ~rtMounted \/ currentLanguage # lng

\* C22: the cycle of RotatingText. A typing step shows one more grapheme of the
\* current message and follows the start, a typing step or the end of a deletion;
\* the whole message is shown when typing ends and the pause begins; a deleting
\* step shows one grapheme less and follows the pause or a deleting step; when the
\* text is empty the index becomes (index + 1) mod messageCount; the text shown is
\* always a prefix of the current message; and once a grapheme is typed the whole
\* message gets shown, then the text gets empty and the next message is started,
\* unless the language changes or the component is unmounted.
C22_FixedCycle ==
    /\ [](rtMounted /\ hasCurrentMessage => IsPrefixOf(textContent, currentMessage))
    /\ [][/\ rtEvent' = "type" =>
               /\ rtEvent \in {"mount", "language", "advance", "type"}
               /\ AtClusterEnd(textContent', currentMessage')
               /\ ClusterCount(textContent') = ClusterCount(textContent) + 1
               /\ UNCHANGED currentIndexRef
          /\ rtEvent' = "typed" =>
               /\ rtEvent = "type"
               /\ textContent = currentMessage
               /\ UNCHANGED <<textContent, currentIndexRef>>
               /\ timeoutRef'.delay = pauseDelay
          /\ rtEvent' = "delete" =>
               /\ rtEvent \in {"typed", "delete"}
               /\ AtClusterEnd(textContent', currentMessage')
               /\ ClusterCount(textContent') = ClusterCount(textContent) - 1
               /\ UNCHANGED currentIndexRef
          /\ rtEvent' = "advance" =>
               /\ rtEvent = "delete"
               /\ textContent = <<>> /\ textContent' = <<>>
               /\ currentIndexRef' = (currentIndexRef + 1) % Len(messagesRef)
               /\ hasCurrentMessage']_vars
    /\ \A lng \in Languages :
          /\ (rtEvent = "type" /\ currentLanguage = lng)
                ~> ((rtEvent = "typed" /\ textContent = currentMessage) \/ Interrupted(lng))
          /\ (rtEvent = "typed" /\ currentLanguage = lng)
                ~> ((rtEvent = "advance" /\ textContent = <<>>) \/ Interrupted(lng))
          /\ (rtEvent = "advance" /\ currentLanguage = lng)
                ~> (rtEvent = "type" \/ Interrupted(lng))

\* The first message was typed and deleted, and the second, of two graphemes in
\* three code units, is typed in full.
C22_Witness ==
    /\ rtMounted /\ rtEvent = "type" /\ Len(messagesRef) = 2
    /\ currentIndexRef = 1
    /\ timeoutRef.delay = typeSpeed /\ timeoutRef.arg = 2
    /\ currentMessage = <<"c", Mark, "d">> /\ textContent = currentMessage
    /\ At(messagesRef, 0) = <<"b", Mark>>

WellFormedCode(code) ==
    \/ code = <<"a", "a">>
    \/ code = <<"a", "a", "-", "A", "A">>

IsSetVar(v) == v \notin {Undefined, ""}

\* C23: every request is answered with one status: 400 for a malformed language
\* code; else 503 when neither B2_BUCKET_URL nor both B2_BUCKET_NAME and
\* B2_DOWNLOAD_URL are set; else 404 when B2 answers 404, 500 for any other
\* non-OK answer or thrown error, 200 only when B2 answered OK. No request goes to
\* B2 with 400 and 503, otherwise exactly one, and it is built from B2_BUCKET_URL
\* whenever that is set.
C23_StatusMapping ==
    fnPc = "responded" =>
        LET configured == \/ IsSetVar(fnEnv.B2_BUCKET_URL)
                          \/ IsSetVar(fnEnv.B2_BUCKET_NAME) /\ IsSetVar(fnEnv.B2_DOWNLOAD_URL)
        IN  /\ fnStatus \in {200, 400, 404, 500, 503}
            /\ fnStatus = 400 <=> ~WellFormedCode(fnLanguage)
            /\ fnStatus = 503 <=> WellFormedCode(fnLanguage) /\ ~configured
            /\ fnStatus \in {400, 503} <=> b2Requests = <<>>
            /\ fnStatus \in {400, 503} <=> b2Answer = NoOutcome
            /\ fnStatus \notin {400, 503} =>
                  /\ Len(b2Requests) = 1
                  /\ IsSetVar(fnEnv.B2_BUCKET_URL) =>
                        b2Requests[1].base = fnEnv.B2_BUCKET_URL /\ b2Requests[1].bucket = ""
                  /\ ~IsSetVar(fnEnv.B2_BUCKET_URL) =>
                        /\ b2Requests[1].base = fnEnv.B2_DOWNLOAD_URL
                        /\ b2Requests[1].bucket = fnEnv.B2_BUCKET_NAME
                  /\ b2Requests[1].language = fnLanguage
                  /\ fnStatus = 404 <=> (b2Answer.kind = "response" /\ b2Answer.status = 404)
                  /\ fnStatus = 200 => (b2Answer.kind = "response" /\ b2Answer.status \in 200..299)
                  /\ fnStatus = 500 <=>
                        \/ b2Answer.kind = "throws"
                        \/ b2Answer.kind = "response" /\ b2Answer.status \notin 200..299
                                                      /\ b2Answer.status # 404
                        \/ b2Answer.kind = "response" /\ b2Answer.status \in 200..299
                                                      /\ ~b2Answer.json

\* Both configurations are set, the code has a region, B2 answered 206 with a JSON
\* body and the function answered 200 after one request to the bucket URL.
C23_Witness ==
    /\ fnPc = "responded" /\ fnStatus = 200
    /\ fnLanguage = <<"a", "a", "-", "A", "A">>
    /\ IsSetVar(fnEnv.B2_BUCKET_URL) /\ IsSetVar(fnEnv.B2_BUCKET_NAME)
    /\ IsSetVar(fnEnv.B2_DOWNLOAD_URL)
    /\ b2Answer.status = 206
    /\ Len(b2Requests) = 1 /\ b2Requests[1].base = fnEnv.B2_BUCKET_URL
====
